---- MODULE Spec2Model ----
(***************************************************************************)
(* hg_import.py: import a diff from codereview.appspot.com with `hg import` *)
(* and replay the rename / copy / delete markers of the diff text as hg     *)
(* commands.                                                                *)
(*                                                                          *)
(* A line of text is modelled as the sequence of its words, that is the     *)
(* line without its end-of-line, split at each single space: the line       *)
(* "rename to a b" is <<"rename", "to", "a", "b">> and a line ending in a   *)
(* space has an empty last word.  A regular expression of the script is     *)
(* the sequence of its literal words; all six have the shape                *)
(* ^literal words (\S+)$ .                                                  *)
(***************************************************************************)
EXTENDS Integers, Sequences, FiniteSets, TLC

(* Longest diff text, in lines, that the URL serves. *)
MaxLines == 3

(* ---------------------------------------------------------------------- *)
(* Inputs                                                                  *)
(* ---------------------------------------------------------------------- *)
Prog == "hg_import.py"
Url == "http://codereview.appspot.com/download/issue1.diff"

(* sys.argv, program name first. *)
Argvs ==
  { <<Prog>>, <<Prog, "-f">>, <<Prog, Url>>, <<Prog, "-f", Url>>, <<Prog, Url, "-f">> }

Paths == {"a", "b"}

(* The lines a diff text is made of: the six markers with each path, and  *)
(* a line no pattern accepts (a marker whose path has a space in it).      *)
LineSet ==
  { <<"Index:", p>> : p \in Paths }
    \cup { <<"deleted", "file", "mode", "100644">> }
    \cup { <<"rename", "from", p>> : p \in Paths }
    \cup { <<"rename", "to", p>> : p \in Paths }
    \cup { <<"copy", "from", p>> : p \in Paths }
    \cup { <<"copy", "to", p>> : p \in Paths }
    \cup { <<"rename", "to", "a", "b">> }

RECURSIVE SeqsUpTo(_, _)
SeqsUpTo(S, n) ==
  IF n = 0 THEN { <<>> }
  ELSE LET shorter == SeqsUpTo(S, n - 1)
       IN  shorter \cup { Append(t, x) : t \in { u \in shorter : Len(u) = n - 1 }, x \in S }

(* The texts urllib.urlopen(url).readlines() can return. *)
DiffTexts == SeqsUpTo(LineSet, MaxLines)

(* Exit statuses of an hg subprocess: success, failure. *)
ReturnCodes == {0, 1}

(* ---------------------------------------------------------------------- *)
(* Patterns                                                                *)
(* ---------------------------------------------------------------------- *)
file_name_re == <<"Index:">>
deleted_re == <<"deleted", "file", "mode">>
fp == <<"rename", "from">>
tp == <<"rename", "to">>
fcp == <<"copy", "from">>
tcp == <<"copy", "to">>
hg_cmd == "hg"

(* re.search(line) is a match: the literal words, then exactly one         *)
(* non-empty word of non-space characters, then the end of the line.       *)
search(re, text) ==
  /\ Len(text) = Len(re) + 1
  /\ SubSeq(text, 1, Len(re)) = re
  /\ text[Len(text)] # ""

(* m.group(1) of a match. *)
group1(text) == text[Len(text)]

(* ---------------------------------------------------------------------- *)
(* State                                                                   *)
(* ---------------------------------------------------------------------- *)
VARIABLES
  argv,        \* sys.argv
  hgExists,    \* os.path.exists('.hg')
  pc,          \* position in the script
  i,           \* index of the URL in sys.argv (0-based, as in the script)
  force,       \* the force flag list
  url,         \* the URL argument
  webFile,     \* "unopened", "open", "closed"
  lines,       \* webFile.readlines()
  pos,         \* number of the line the loop handles next (1-based)
  file_name,   \* script variable, Unbound until first assigned
  hg_from,     \* script variable, Unbound until first assigned
  hg_to,       \* script variable, Unbound until first assigned
  calls,       \* the subprocess invocations so far, each with its exit status
  out,         \* the lines printed to standard output
  error,       \* the exception that ended the script, "none" otherwise
  exit_code    \* process exit status, meaningful when pc = "exited"

vars ==
  << argv, hgExists, pc, i, force, url, webFile, lines, pos,
     file_name, hg_from, hg_to, calls, out, error, exit_code >>

Unbound == "<unbound>"

(* The script variables and effects a loop body works on. *)
Env ==
  [ file_name |-> file_name, hg_from |-> hg_from, hg_to |-> hg_to,
    calls |-> calls, out |-> out, error |-> "none" ]

Raised(s) == s.error # "none"

(* check_call as subprocess.call: the exit status is ignored. *)
check_call_Unchecked(s, args, at, rc) ==
  [ s EXCEPT !.calls = Append(@, [cmd |-> args, rc |-> rc, at |-> at]) ]

(* subprocess.check_call(args): run the command; a non-zero exit status    *)
(* raises CalledProcessError.  `at` is the number of the diff line being   *)
(* handled (0 before the loop).                                            *)
check_call(s, args, at, rc) ==
  [ s EXCEPT !.calls = Append(@, [cmd |-> args, rc |-> rc, at |-> at]),
             !.error = IF rc = 0 THEN @ ELSE "CalledProcessError" ]

(* Reading a script variable that was never assigned raises NameError. *)
NameError(s) == [ s EXCEPT !.error = "NameError" ]

Init ==
  /\ argv \in Argvs
  /\ hgExists \in BOOLEAN
  /\ pc = "args"
  /\ i = 0
  /\ force = <<>>
  /\ url = Unbound
  /\ webFile = "unopened"
  /\ lines = <<>>
  /\ pos = 1
  /\ file_name = Unbound
  /\ hg_from = Unbound
  /\ hg_to = Unbound
  /\ calls = <<>>
  /\ out = <<>>
  /\ error = "none"
  /\ exit_code = 0

(* The process ends with the given status. *)
Exit(code, exc) ==
  /\ pc' = "exited"
  /\ exit_code' = code
  /\ error' = exc

(* if len(sys.argv) == 1: print usage; sys.exit(1) *)
CheckArgs ==
  /\ pc = "args"
  /\ IF Len(argv) = 1
       THEN /\ out' = Append(out, <<"missing codereview.appspot.com URL">>)
            /\ Exit(1, "SystemExit")
       ELSE /\ pc' = "workspace"
            /\ UNCHANGED << out, error, exit_code >>
  /\ UNCHANGED << argv, hgExists, i, force, url, webFile, lines, pos,
                  file_name, hg_from, hg_to, calls >>

(* CheckWorkspace without its sys.exit(1): the message is printed and the *)
(* script goes on.                                                        *)
CheckWorkspace_NoExit ==
  /\ pc = "workspace"
  /\ out' = IF ~hgExists
              THEN Append(out, <<"must be run from the root directory of the hg workspace">>)
              ELSE out
  /\ pc' = "parse"
  /\ UNCHANGED << argv, hgExists, i, force, url, webFile, lines, pos,
                  file_name, hg_from, hg_to, calls, error, exit_code >>

(* if not os.path.exists('.hg'): print message; sys.exit(1) *)
CheckWorkspace ==
  /\ pc = "workspace"
  /\ IF ~hgExists
       THEN /\ out' = Append(out, <<"must be run from the root directory of the hg workspace">>)
            /\ Exit(1, "SystemExit")
       ELSE /\ pc' = "parse"
            /\ UNCHANGED << out, error, exit_code >>
  /\ UNCHANGED << argv, hgExists, i, force, url, webFile, lines, pos,
                  file_name, hg_from, hg_to, calls >>

(* ParseArgs that takes -f for the force flag wherever it stands in        *)
(* sys.argv ('-f' in sys.argv).                                             *)
ParseArgs_FlagAnywhere ==
  /\ pc = "parse"
  /\ LET isForce == \E k \in 2..Len(argv) : argv[k] = "-f"
         idx == IF argv[2] = "-f" THEN 2 ELSE 1
     IN  /\ i' = idx
         /\ force' = IF isForce THEN <<"-f">> ELSE <<>>
         /\ IF idx + 1 > Len(argv)
              THEN /\ Exit(1, "IndexError")
                   /\ UNCHANGED url
              ELSE /\ url' = argv[idx + 1]
                   /\ pc' = "import"
                   /\ UNCHANGED << error, exit_code >>
  /\ UNCHANGED << argv, hgExists, webFile, lines, pos,
                  file_name, hg_from, hg_to, calls, out >>

(* The -f flag and url = sys.argv[i]; sys.argv[i] past the end raises      *)
(* IndexError.  argv[k + 1] is Python's sys.argv[k].                        *)
ParseArgs ==
  /\ pc = "parse"
  /\ LET isForce == argv[2] = "-f"
         idx == IF isForce THEN 2 ELSE 1
     IN  /\ i' = idx
         /\ force' = IF isForce THEN <<"-f">> ELSE <<>>
         /\ IF idx + 1 > Len(argv)
              THEN /\ Exit(1, "IndexError")
                   /\ UNCHANGED url
              ELSE /\ url' = argv[idx + 1]
                   /\ pc' = "import"
                   /\ UNCHANGED << error, exit_code >>
  /\ UNCHANGED << argv, hgExists, webFile, lines, pos,
                  file_name, hg_from, hg_to, calls, out >>

(* Import whose failure is not fatal: the script goes on to the fetch. *)
Import_Unchecked ==
  /\ pc = "import"
  /\ \E rc \in ReturnCodes :
       calls' = Append(calls, [cmd |-> <<hg_cmd, "import">> \o force \o <<"--no-commit", url>>,
                               rc |-> rc, at |-> 0])
  /\ pc' = "fetch"
  /\ UNCHANGED << argv, hgExists, i, force, url, webFile, lines, pos,
                  file_name, hg_from, hg_to, out, error, exit_code >>

(* subprocess.check_call([hg_cmd, 'import'] + force + ['--no-commit', url]) *)
Import ==
  /\ pc = "import"
  /\ \E rc \in ReturnCodes :
       LET s == check_call(Env, <<hg_cmd, "import">> \o force \o <<"--no-commit", url>>, 0, rc)
       IN  /\ calls' = s.calls
           /\ IF Raised(s)
                THEN Exit(1, s.error)
                ELSE /\ pc' = "fetch"
                     /\ UNCHANGED << error, exit_code >>
  /\ UNCHANGED << argv, hgExists, i, force, url, webFile, lines, pos,
                  file_name, hg_from, hg_to, out >>

(* webFile = urllib.urlopen(url); webFile.readlines(): the text the URL    *)
(* serves, or IOError when the fetch fails.                                 *)
Fetch ==
  /\ pc = "fetch"
  /\ \/ /\ Exit(1, "IOError")
        /\ UNCHANGED << webFile, lines >>
     \/ /\ webFile' = "open"
        /\ lines' \in DiffTexts
        /\ pc' = "scan"
        /\ UNCHANGED << error, exit_code >>
  /\ UNCHANGED << argv, hgExists, i, force, url, pos,
                  file_name, hg_from, hg_to, calls, out >>

(* DetectFileName that keeps the first file name it has seen. *)
DetectFileName_KeepFirst(s, line) ==
  IF Raised(s) \/ ~search(file_name_re, line) THEN s
  ELSE [ s EXCEPT !.file_name = IF @ = Unbound THEN group1(line) ELSE @,
                  !.out = Append(@, <<"___", group1(line)>>) ]

(* DetectFileName without its print. *)
DetectFileName_Silent(s, line) ==
  IF Raised(s) \/ ~search(file_name_re, line) THEN s
  ELSE [ s EXCEPT !.file_name = group1(line) ]

(* # detect file name *)
DetectFileName(s, line) ==
  IF Raised(s) \/ ~search(file_name_re, line) THEN s
  ELSE [ s EXCEPT !.file_name = group1(line),
                  !.out = Append(@, <<"___", group1(line)>>) ]

(* DetectDeleted in a script that starts with file_name = '': a deleted    *)
(* line with no Index line before it removes the empty path.               *)
DetectDeleted_Initialised(s, line, at, rc) ==
  IF Raised(s) \/ ~search(deleted_re, line) THEN s
  ELSE check_call(s, <<hg_cmd, "rm", "-f", IF s.file_name = Unbound THEN "" ELSE s.file_name>>,
                  at, rc)

(* # detect deleted file *)
DetectDeleted(s, line, at, rc) ==
  IF Raised(s) \/ ~search(deleted_re, line) THEN s
  ELSE IF s.file_name = Unbound THEN NameError(s)
  ELSE check_call(s, <<hg_cmd, "rm", "-f", s.file_name>>, at, rc)

(* DetectMoved with the two paths of hg mv in the wrong order. *)
DetectMoved_Swapped(s, line, at, rc) ==
  LET s1 == IF Raised(s) \/ ~search(fp, line) THEN s
            ELSE [ s EXCEPT !.hg_from = group1(line) ]
  IN  IF Raised(s1) \/ ~search(tp, line) THEN s1
      ELSE LET s2 == [ s1 EXCEPT !.hg_to = group1(line) ]
           IN  IF s2.hg_from = Unbound THEN NameError(s2)
               ELSE check_call(s2, <<hg_cmd, "mv", "-f", s2.hg_to, s2.hg_from>>, at, rc)

(* DetectMoved in a script that starts with hg_from = '': a `rename to`    *)
(* line with no `from` line before it renames the empty path.              *)
DetectMoved_Initialised(s, line, at, rc) ==
  LET s1 == IF Raised(s) \/ ~search(fp, line) THEN s
            ELSE [ s EXCEPT !.hg_from = group1(line) ]
  IN  IF Raised(s1) \/ ~search(tp, line) THEN s1
      ELSE LET s2 == [ s1 EXCEPT !.hg_to = group1(line) ]
           IN  check_call(s2, <<hg_cmd, "mv", "-f",
                                IF s2.hg_from = Unbound THEN "" ELSE s2.hg_from, s2.hg_to>>,
                          at, rc)

(* # detect moved file *)
DetectMoved(s, line, at, rc) ==
  LET s1 == IF Raised(s) \/ ~search(fp, line) THEN s
            ELSE [ s EXCEPT !.hg_from = group1(line) ]
  IN  IF Raised(s1) \/ ~search(tp, line) THEN s1
      ELSE LET s2 == [ s1 EXCEPT !.hg_to = group1(line) ]
           IN  IF s2.hg_from = Unbound THEN NameError(s2)
               ELSE check_call(s2, <<hg_cmd, "mv", "-f", s2.hg_from, s2.hg_to>>, at, rc)

(* DetectCopied that reverts the target of the copy instead of its source. *)
DetectCopied_RevertTarget(s, line, at, rc1, rc2) ==
  LET s1 == IF Raised(s) \/ ~search(fcp, line) THEN s
            ELSE [ s EXCEPT !.hg_from = group1(line) ]
  IN  IF Raised(s1) \/ ~search(tcp, line) THEN s1
      ELSE LET s2 == [ s1 EXCEPT !.hg_to = group1(line) ]
           IN  IF s2.hg_from = Unbound THEN NameError(s2)
               ELSE LET s3 == check_call(s2, <<hg_cmd, "cp", s2.hg_from, s2.hg_to>>, at, rc1)
                    IN  IF Raised(s3) THEN s3
                        ELSE check_call(s3, <<hg_cmd, "revert", "--no-backup", s3.hg_to>>, at, rc2)

(* DetectCopied without the revert of the copy source. *)
DetectCopied_NoRevert(s, line, at, rc1, rc2) ==
  LET s1 == IF Raised(s) \/ ~search(fcp, line) THEN s
            ELSE [ s EXCEPT !.hg_from = group1(line) ]
  IN  IF Raised(s1) \/ ~search(tcp, line) THEN s1
      ELSE LET s2 == [ s1 EXCEPT !.hg_to = group1(line) ]
           IN  IF s2.hg_from = Unbound THEN NameError(s2)
               ELSE check_call(s2, <<hg_cmd, "cp", s2.hg_from, s2.hg_to>>, at, rc1)

(* # detect copied file *)
DetectCopied(s, line, at, rc1, rc2) ==
  LET s1 == IF Raised(s) \/ ~search(fcp, line) THEN s
            ELSE [ s EXCEPT !.hg_from = group1(line) ]
  IN  IF Raised(s1) \/ ~search(tcp, line) THEN s1
      ELSE LET s2 == [ s1 EXCEPT !.hg_to = group1(line) ]
           IN  IF s2.hg_from = Unbound THEN NameError(s2)
               ELSE LET s3 == check_call(s2, <<hg_cmd, "cp", s2.hg_from, s2.hg_to>>, at, rc1)
                    IN  IF Raised(s3) THEN s3
                        ELSE check_call(s3, <<hg_cmd, "revert", "--no-backup", s3.hg_from>>, at, rc2)

(* The body of `for line in webFile.readlines()` on one line: the four     *)
(* blocks in the script's order.  The six patterns start with different    *)
(* words, so a line matches at most one and runs at most two commands:     *)
(* rc1 is the exit status of the first, rc2 of the second.                 *)
LoopBody(s, line, at, rc1, rc2) ==
  DetectCopied(DetectMoved(DetectDeleted(DetectFileName(s, line), line, at, rc1),
                           line, at, rc1),
               line, at, rc1, rc2)

(* ScanLine over the lines in reverse (for line in reversed(...)). *)
ScanLine_Reversed ==
  /\ pc = "scan"
  /\ pos <= Len(lines)
  /\ \E rc1, rc2 \in ReturnCodes :
       LET at == Len(lines) + 1 - pos
           s == LoopBody(Env, lines[at], at, rc1, rc2)
       IN  /\ file_name' = s.file_name
           /\ hg_from' = s.hg_from
           /\ hg_to' = s.hg_to
           /\ calls' = s.calls
           /\ out' = s.out
           /\ IF Raised(s)
                THEN /\ Exit(1, s.error)
                     /\ UNCHANGED pos
                ELSE /\ pos' = pos + 1
                     /\ UNCHANGED << pc, error, exit_code >>
  /\ UNCHANGED << argv, hgExists, i, force, url, webFile, lines >>

(* One iteration of the loop. *)
ScanLine ==
  /\ pc = "scan"
  /\ pos <= Len(lines)
  /\ \E rc1, rc2 \in ReturnCodes :
       LET s == LoopBody(Env, lines[pos], pos, rc1, rc2)
       IN  /\ file_name' = s.file_name
           /\ hg_from' = s.hg_from
           /\ hg_to' = s.hg_to
           /\ calls' = s.calls
           /\ out' = s.out
           /\ IF Raised(s)
                THEN /\ Exit(1, s.error)
                     /\ UNCHANGED pos
                ELSE /\ pos' = pos + 1
                     /\ UNCHANGED << pc, error, exit_code >>
  /\ UNCHANGED << argv, hgExists, i, force, url, webFile, lines >>

(* The loop is over: webFile.close() and the script ends. *)
Close ==
  /\ pc = "scan"
  /\ pos > Len(lines)
  /\ webFile' = "closed"
  /\ Exit(0, "none")
  /\ UNCHANGED << argv, hgExists, i, force, url, lines, pos,
                  file_name, hg_from, hg_to, calls, out >>

Next ==
  \/ CheckArgs
  \/ CheckWorkspace
  \/ ParseArgs
  \/ Import
  \/ Fetch
  \/ ScanLine
  \/ Close

Spec == Init /\ [][Next]_vars

(* ---------------------------------------------------------------------- *)
(* The script on two-file diffs: longer texts over fewer kinds of line.    *)
(* ---------------------------------------------------------------------- *)
(* Longest diff text, in lines, of the two-file runs. *)
MaxScenarioLines == 4

(* Index lines of two files, one rename pair, a deleted line and a content *)
(* line of the diff.                                                       *)
ScenarioLineSet ==
  { <<"Index:", "a">>, <<"Index:", "b">>,
    <<"rename", "from", "b">>, <<"rename", "to", "a">>,
    <<"deleted", "file", "mode", "100644">>,
    <<"+x">> }

ScenarioTexts == SeqsUpTo(ScenarioLineSet, MaxScenarioLines)

(* Fetch, the URL serving a two-file diff. *)
FetchScenario ==
  /\ pc = "fetch"
  /\ \/ /\ Exit(1, "IOError")
        /\ UNCHANGED << webFile, lines >>
     \/ /\ webFile' = "open"
        /\ lines' \in ScenarioTexts
        /\ pc' = "scan"
        /\ UNCHANGED << error, exit_code >>
  /\ UNCHANGED << argv, hgExists, i, force, url, pos,
                  file_name, hg_from, hg_to, calls, out >>

NextScenario ==
  \/ CheckArgs
  \/ CheckWorkspace
  \/ ParseArgs
  \/ Import
  \/ FetchScenario
  \/ ScanLine
  \/ Close

SpecScenario == Init /\ [][NextScenario]_vars

(* ---------------------------------------------------------------------- *)
(* Vocabulary of the properties                                            *)
(* ---------------------------------------------------------------------- *)
UsageMessage == <<"missing codereview.appspot.com URL">>

(* No URL argument is supplied: no argument at all, or the -f flag alone. *)
NoUrlArgument == Len(argv) = 1 \/ argv = <<Prog, "-f">>

Exited == pc = "exited"

(* Line n of the diff text has been handled by the loop, to its end or to  *)
(* the exception that ended the run.                                       *)
Handled(n) == n \in 1..Len(lines) /\ (pos > n \/ (pos = n /\ Exited))

(* The invocations issued while handling line n (0: before the loop). *)
CallsAt(n) == SelectSeq(calls, LAMBDA c : c.at = n)

(* The command lines of a sequence of invocations. *)
Cmds(cs) == [ k \in 1..Len(cs) |-> cs[k].cmd ]

IsImport(c) == c.cmd[2] = "import"

(* The invocation that failed, if any, is number k. *)
Failed(k) == k \in 1..Len(calls) /\ calls[k].rc # 0

(* ---------------------------------------------------------------------- *)
(* C1                                                                      *)
(* ---------------------------------------------------------------------- *)
(* C1: whenever no URL argument is supplied (no argument, or -f alone),    *)
(* no external command is invoked and the process exits non-zero having    *)
(* printed the usage message.                                              *)
C1_MissingUrlUsage ==
  NoUrlArgument =>
    /\ calls = <<>>
    /\ pc \in {"args", "workspace", "parse", "exited"}
    /\ Exited => (exit_code # 0 /\ \E k \in 1..Len(out) : out[k] = UsageMessage)

(* ---------------------------------------------------------------------- *)
(* C2                                                                      *)
(* ---------------------------------------------------------------------- *)
(* C2: without the .hg directory no external command is ever invoked, the  *)
(* URL is never fetched, the script never gets past the workspace check,   *)
(* and the process exits non-zero.                                         *)
C2_NoWorkspaceNoCommand ==
  ~hgExists =>
    /\ calls = <<>>
    /\ webFile = "unopened"
    /\ pc \in {"args", "workspace", "exited"}
    /\ Exited => exit_code # 0

(* The workspace check has acted: .hg is absent, arguments were given, and *)
(* the run is over.                                                        *)
C2_Witness ==
  /\ ~hgExists
  /\ argv = <<Prog, "-f", Url>>
  /\ Exited
  /\ out = << <<"must be run from the root directory of the hg workspace">> >>

(* ---------------------------------------------------------------------- *)
(* C3                                                                      *)
(* ---------------------------------------------------------------------- *)
(* C3: if the hg import invocation returns non-zero, it is the only        *)
(* invocation of the run, the URL is never opened nor its text read, no    *)
(* line is scanned, and the process has exited non-zero.                   *)
C3_ImportFailureStops ==
  (calls # <<>> /\ IsImport(calls[1]) /\ calls[1].rc # 0) =>
    /\ Len(calls) = 1
    /\ webFile = "unopened"
    /\ lines = <<>>
    /\ pos = 1
    /\ out = <<>>
    /\ Exited
    /\ exit_code # 0

(* The import has been invoked and has failed. *)
C3_Witness ==
  /\ Len(calls) = 1
  /\ calls[1].cmd = <<hg_cmd, "import", "-f", "--no-commit", Url>>
  /\ calls[1].rc # 0

(* ---------------------------------------------------------------------- *)
(* C4                                                                      *)
(* ---------------------------------------------------------------------- *)
(* C4: a replay command that returns non-zero is the last invocation of    *)
(* the run: the process has exited non-zero, and the loop stands at the    *)
(* line that issued it, so no later line is handled.                       *)
C4_FirstFailureEndsRun ==
  \A k \in 1..Len(calls) :
    (Failed(k) /\ calls[k].at >= 1) =>
      /\ k = Len(calls)
      /\ Exited
      /\ exit_code # 0
      /\ pos = calls[k].at
      /\ \A n \in (pos + 1)..Len(lines) : ~Handled(n) /\ CallsAt(n) = <<>>

(* A copy has failed on a line that has lines after it: neither the revert *)
(* nor any later line follows.                                             *)
C4_Witness ==
  \E k \in 1..Len(calls) :
    /\ Failed(k)
    /\ calls[k].cmd[2] = "cp"
    /\ calls[k].at < Len(lines)
    /\ search(tp, lines[calls[k].at + 1])

(* ---------------------------------------------------------------------- *)
(* C5                                                                      *)
(* ---------------------------------------------------------------------- *)
(* Line n - 1 is `rename from A` and line n, the next line, is             *)
(* `rename to B`.                                                          *)
RenamePairAt(n) ==
  /\ n \in 2..Len(lines)
  /\ search(fp, lines[n - 1])
  /\ search(tp, lines[n])

(* C5: once the `rename to B` line that directly follows a `rename from A` *)
(* line has been handled, the invocations issued for the pair are exactly  *)
(* one: hg mv -f A B, issued by the `rename to` line.                      *)
C5_RenamePairOneForcedRename ==
  \A n \in 1..Len(lines) :
    (RenamePairAt(n) /\ Handled(n)) =>
      /\ CallsAt(n - 1) = <<>>
      /\ Cmds(CallsAt(n)) =
           << <<hg_cmd, "mv", "-f", group1(lines[n - 1]), group1(lines[n])>> >>

(* A pair whose two paths differ has been handled after an Index line and  *)
(* a copy source naming the other path.                                    *)
C5_Witness ==
  /\ Len(lines) = 3
  /\ lines = << <<"copy", "from", "b">>, <<"rename", "from", "a">>, <<"rename", "to", "b">> >>
  /\ Handled(3)

(* ---------------------------------------------------------------------- *)
(* C6                                                                      *)
(* ---------------------------------------------------------------------- *)
(* Line n - 1 is `copy from A` and line n, the next line, is `copy to C`.  *)
CopyPairAt(n) ==
  /\ n \in 2..Len(lines)
  /\ search(fcp, lines[n - 1])
  /\ search(tcp, lines[n])

(* C6: once the `copy to C` line that directly follows a `copy from A`     *)
(* line has been handled, the pair has issued hg cp A C first, exactly     *)
(* once, and then hg revert --no-backup A, exactly once, provided the copy *)
(* returned zero; after a failed copy there is no revert.  No revert is    *)
(* ever issued but right after a successful copy of the same line.         *)
C6_CopyThenRevert ==
  /\ \A n \in 1..Len(lines) :
       (CopyPairAt(n) /\ Handled(n)) =>
         LET cs == CallsAt(n)
             A == group1(lines[n - 1])
             C == group1(lines[n])
         IN  /\ CallsAt(n - 1) = <<>>
             /\ Len(cs) >= 1
             /\ cs[1].cmd = <<hg_cmd, "cp", A, C>>
             /\ IF cs[1].rc = 0
                  THEN Cmds(cs) = << <<hg_cmd, "cp", A, C>>,
                                     <<hg_cmd, "revert", "--no-backup", A>> >>
                  ELSE Len(cs) = 1
  /\ \A k \in 1..Len(calls) :
       calls[k].cmd[2] = "revert" =>
         /\ k > 1
         /\ calls[k - 1].cmd[2] = "cp"
         /\ calls[k - 1].rc = 0
         /\ calls[k - 1].at = calls[k].at

(* A copy pair whose two paths differ has been handled and both of its     *)
(* commands were issued.                                                   *)
C6_Witness ==
  \E n \in 1..Len(lines) :
    /\ CopyPairAt(n)
    /\ Handled(n)
    /\ group1(lines[n - 1]) # group1(lines[n])
    /\ Len(CallsAt(n)) = 2

(* ---------------------------------------------------------------------- *)
(* C7                                                                      *)
(* ---------------------------------------------------------------------- *)
(* The numbers of the `Index: P` lines before line n. *)
IndexLinesBefore(n) == { m \in 1..(n - 1) : search(file_name_re, lines[m]) }

Max(S) == CHOOSE x \in S : \A y \in S : y <= x

(* C7: once a `deleted file mode` line that has an `Index:` line before it *)
(* has been handled, it has issued exactly one invocation, hg rm -f P,     *)
(* where P is the path of the last `Index:` line before it.                *)
C7_DeletedRemovesLatestIndex ==
  \A n \in 1..Len(lines) :
    (search(deleted_re, lines[n]) /\ IndexLinesBefore(n) # {} /\ Handled(n)) =>
      Cmds(CallsAt(n)) =
        << <<hg_cmd, "rm", "-f", group1(lines[Max(IndexLinesBefore(n))])>> >>

(* A deleted line has been handled after two Index lines naming different  *)
(* paths.                                                                  *)
C7_Witness ==
  /\ Len(lines) = 3
  /\ search(file_name_re, lines[1])
  /\ search(file_name_re, lines[2])
  /\ group1(lines[1]) # group1(lines[2])
  /\ search(deleted_re, lines[3])
  /\ Handled(3)

(* ---------------------------------------------------------------------- *)
(* C8                                                                      *)
(* ---------------------------------------------------------------------- *)
AllCallsReturnedZero == \A k \in 1..Len(calls) : calls[k].rc = 0

FromLine(n) == search(fp, lines[n]) \/ search(fcp, lines[n])

ToLine(n) == search(tp, lines[n]) \/ search(tcp, lines[n])

(* Line n needs an operand that no line before it has set: a deleted line  *)
(* with no Index line before it, a `rename to` or `copy to` line with no   *)
(* `rename from` or `copy from` line before it.                            *)
UnsetOperandAt(n) ==
  \/ search(deleted_re, lines[n]) /\ IndexLinesBefore(n) = {}
  \/ ToLine(n) /\ \A m \in 1..(n - 1) : ~FromLine(m)

(* C8 as stated, for every diff text the run has read: the exit status is  *)
(* zero exactly when a URL argument is supplied, .hg exists and every      *)
(* external command invoked returned zero.                                 *)
C8_ExitZeroIffValidAndCallsPass ==
  (Exited /\ webFile # "unopened") =>
    (exit_code = 0 <=> (~NoUrlArgument /\ hgExists /\ AllCallsReturnedZero))

(* C8 amended: the exit status is zero exactly when a URL argument is      *)
(* supplied, .hg exists, every external command invoked returned zero, the *)
(* diff text was fetched, and no line of it needs an operand that no       *)
(* earlier line has set; and only the last invocation of a run can have    *)
(* returned non-zero.                                                      *)
C8_ExitStatus ==
  Exited =>
    /\ exit_code = 0 <=>
         /\ ~NoUrlArgument
         /\ hgExists
         /\ AllCallsReturnedZero
         /\ webFile # "unopened"
         /\ \A n \in 1..Len(lines) : ~UnsetOperandAt(n)
    /\ \A k \in 1..(Len(calls) - 1) : calls[k].rc = 0

(* A run that replayed markers to the end of a three-line diff and exited  *)
(* zero.                                                                   *)
C8_Witness ==
  /\ Exited
  /\ exit_code = 0
  /\ Len(lines) = 3
  /\ Len(calls) >= 3

(* ---------------------------------------------------------------------- *)
(* C9                                                                      *)
(* ---------------------------------------------------------------------- *)
(* The source path of a rename, copy or revert invocation. *)
SourceOf(c) == IF c.cmd[2] = "cp" THEN c.cmd[3] ELSE c.cmd[4]

(* C9: after a `rename from A` / `rename to B` pair or a `copy from A` /   *)
(* `copy to C` pair (lines m - 1 and m), a later `rename to` or `copy to`  *)
(* line n with no `from` line between the pair and itself issues no        *)
(* command whose source is A.                                              *)
C9_PendingSourceConsumed ==
  \A m, n \in 1..Len(lines) :
    ( /\ m < n
      /\ RenamePairAt(m) \/ CopyPairAt(m)
      /\ ToLine(n)
      /\ \A j \in (m + 1)..(n - 1) : ~FromLine(j)
      /\ Handled(n) ) =>
        \A k \in 1..Len(CallsAt(n)) : SourceOf(CallsAt(n)[k]) # group1(lines[m - 1])

(* ---------------------------------------------------------------------- *)
(* C10                                                                     *)
(* ---------------------------------------------------------------------- *)
(* The replay invocations: those issued by the loop. *)
ReplayCalls == SelectSeq(calls, LAMBDA c : c.at >= 1)

(* Line n is a recognized marker other than Index. *)
NonIndexMarker(n) ==
  \/ search(deleted_re, lines[n])
  \/ FromLine(n)
  \/ ToLine(n)

NoFailureRun == Exited /\ exit_code = 0

(* C10 as stated: in a run with no failures every recognized marker line   *)
(* other than Index has issued exactly one invocation, and the number of   *)
(* replay invocations is the number of those lines.                        *)
C10_OneCommandPerMarker ==
  NoFailureRun =>
    /\ \A n \in 1..Len(lines) : NonIndexMarker(n) => Len(CallsAt(n)) = 1
    /\ Len(ReplayCalls) = Cardinality({ n \in 1..Len(lines) : NonIndexMarker(n) })

(* The number of invocations a line issues when nothing fails. *)
CommandsOf(text) ==
  IF search(deleted_re, text) \/ search(tp, text) THEN 1
  ELSE IF search(tcp, text) THEN 2
  ELSE 0

RECURSIVE SumCommands(_)
SumCommands(text) ==
  IF text = <<>> THEN 0 ELSE CommandsOf(Head(text)) + SumCommands(Tail(text))

(* C10 amended: in a run with no failures a `deleted file mode` line and a *)
(* `rename to` line have each issued exactly one invocation, a `copy to`   *)
(* line exactly two (the copy, then the revert), and every other line      *)
(* (`rename from`, `copy from`, `Index:`, unrecognized) none; so the       *)
(* number of replay invocations is the number of `deleted file mode` and   *)
(* `rename to` lines plus twice the number of `copy to` lines.             *)
C10_CommandsPerMarker ==
  NoFailureRun =>
    /\ \A n \in 1..Len(lines) : Len(CallsAt(n)) = CommandsOf(lines[n])
    /\ Len(ReplayCalls) = SumCommands(lines)

(* A run with no failures over a diff with a `from` line, a `copy to` line *)
(* and a `rename to` line.                                                 *)
C10_Witness ==
  /\ NoFailureRun
  /\ Len(lines) = 3
  /\ \E n \in 1..3 : search(tcp, lines[n])
  /\ \E n \in 1..3 : search(tp, lines[n])
  /\ Len(ReplayCalls) = 3

(* ---------------------------------------------------------------------- *)
(* C11                                                                     *)
(* ---------------------------------------------------------------------- *)
(* The diagnostic lines on standard output. *)
Diagnostics == SelectSeq(out, LAMBDA o : o[1] = "___")

(* The lines of the diff text the loop has gone through. *)
HandledPrefix ==
  SubSeq(lines, 1, IF Exited /\ pos <= Len(lines) THEN pos ELSE pos - 1)

(* One diagnostic line for each Index line of a text, in the text's order. *)
RECURSIVE IndexDiagnostics(_)
IndexDiagnostics(text) ==
  IF text = <<>> THEN <<>>
  ELSE (IF search(file_name_re, Head(text))
          THEN << <<"___", group1(Head(text))>> >>
          ELSE <<>>) \o IndexDiagnostics(Tail(text))

CallsOf(name) == SelectSeq(calls, LAMBDA c : c.cmd[2] = name)

(* The diff text names two files with Index lines and its only other       *)
(* markers are one `rename from` line directly followed by one `rename to` *)
(* line: one plain modification and one rename pair.                       *)
PlainAndRenameDiff ==
  /\ Cardinality({ n \in 1..Len(lines) : search(file_name_re, lines[n]) }) = 2
  /\ Cardinality({ n \in 1..Len(lines) : RenamePairAt(n) }) = 1
  /\ Cardinality({ n \in 1..Len(lines) : NonIndexMarker(n) }) = 2

(* C11: each Index line the loop has gone through has printed exactly one  *)
(* diagnostic line, ___ P, and has issued no invocation; and a run with no *)
(* failures over a diff with one plain modification and one rename pair    *)
(* has printed exactly two diagnostic lines and issued exactly one hg mv   *)
(* and no hg rm, hg cp or hg revert.                                       *)
C11_IndexIsDiagnosticOnly ==
  /\ Diagnostics = IndexDiagnostics(HandledPrefix)
  /\ \A n \in 1..Len(lines) : search(file_name_re, lines[n]) => CallsAt(n) = <<>>
  /\ (NoFailureRun /\ PlainAndRenameDiff) =>
       /\ Len(Diagnostics) = 2
       /\ Len(CallsOf("mv")) = 1
       /\ CallsOf("rm") = <<>>
       /\ CallsOf("cp") = <<>>
       /\ CallsOf("revert") = <<>>

(* The two-file diff has been replayed to its end. *)
C11_Witness ==
  /\ NoFailureRun
  /\ lines = << <<"Index:", "a">>, <<"Index:", "b">>,
                <<"rename", "from", "b">>, <<"rename", "to", "a">> >>
  /\ PlainAndRenameDiff
  /\ Len(Diagnostics) = 2

(* ---------------------------------------------------------------------- *)
(* C12                                                                     *)
(* ---------------------------------------------------------------------- *)
RenameFromBefore(n) == { m \in 1..(n - 1) : search(fp, lines[m]) }

CopyFromBefore(n) == { m \in 1..(n - 1) : search(fcp, lines[m]) }

(* C12: a `copy from` line between a `rename from A` line and its          *)
(* `rename to` line leaves the source of the rename command A, and a       *)
(* `rename from` line between a `copy from A` line and its `copy to` line  *)
(* leaves the source of the copy and revert commands A.                    *)
C12_TrackersIndependent ==
  \A n \in 1..Len(lines) :
    Handled(n) =>
      /\ ( /\ search(tp, lines[n])
           /\ RenameFromBefore(n) # {}
           /\ \E j \in (Max(RenameFromBefore(n)) + 1)..(n - 1) : search(fcp, lines[j]) ) =>
             \A k \in 1..Len(CallsAt(n)) :
               SourceOf(CallsAt(n)[k]) = group1(lines[Max(RenameFromBefore(n))])
      /\ ( /\ search(tcp, lines[n])
           /\ CopyFromBefore(n) # {}
           /\ \E j \in (Max(CopyFromBefore(n)) + 1)..(n - 1) : search(fp, lines[j]) ) =>
             \A k \in 1..Len(CallsAt(n)) :
               SourceOf(CallsAt(n)[k]) = group1(lines[Max(CopyFromBefore(n))])

(* ---------------------------------------------------------------------- *)
(* C13                                                                     *)
(* ---------------------------------------------------------------------- *)
(* Both validations pass: a URL argument is supplied and .hg exists. *)
ValidationPassed == ~NoUrlArgument /\ hgExists

(* The import command line the arguments ask for: -f exactly when the      *)
(* first argument is -f, then --no-commit and the URL argument.            *)
ExpectedImport ==
  IF argv[2] = "-f"
    THEN <<hg_cmd, "import", "-f", "--no-commit", argv[3]>>
    ELSE <<hg_cmd, "import", "--no-commit", argv[2]>>

(* The command line of a replay invocation has the same form whatever the  *)
(* force flag is: hg rm -f P, hg mv -f A B, hg cp A C without -f,          *)
(* hg revert --no-backup A without -f.                                     *)
ReplayForm(cmd) ==
  \/ \E p \in Paths : cmd = <<hg_cmd, "rm", "-f", p>>
  \/ \E p, q \in Paths : cmd = <<hg_cmd, "mv", "-f", p, q>>
  \/ \E p, q \in Paths : cmd = <<hg_cmd, "cp", p, q>>
  \/ \E p \in Paths : cmd = <<hg_cmd, "revert", "--no-backup", p>>

(* C13: once a run that passes both validations is past the import, the    *)
(* import has been invoked exactly once, as the first invocation, with     *)
(* --no-commit and the URL, and with -f exactly when the first argument is *)
(* -f; no run that fails a validation invokes it; and every later          *)
(* invocation is a replay command of the form that does not depend on the  *)
(* force flag.                                                             *)
C13_ImportOnceFirstWithFlags ==
  /\ (ValidationPassed /\ pc \notin {"args", "workspace", "parse", "import"}) =>
       Len(CallsOf("import")) = 1
  /\ calls # <<>> =>
       /\ ValidationPassed
       /\ calls[1].cmd = ExpectedImport
       /\ calls[1].at = 0
  /\ \A k \in 2..Len(calls) : calls[k].at >= 1 /\ ReplayForm(calls[k].cmd)

(* A forced import followed by a copy and its revert, which carry no -f. *)
C13_Witness ==
  /\ argv = <<Prog, "-f", Url>>
  /\ Len(calls) = 3
  /\ calls[1].cmd = <<hg_cmd, "import", "-f", "--no-commit", Url>>
  /\ calls[2].cmd[2] = "cp"
  /\ calls[3].cmd[2] = "revert"

(* ---------------------------------------------------------------------- *)
(* C14                                                                     *)
(* ---------------------------------------------------------------------- *)
(* The commands a line can trigger, by the marker it is. *)
CommandNamesOf(text) ==
  IF search(deleted_re, text) THEN {"rm"}
  ELSE IF search(tp, text) THEN {"mv"}
  ELSE IF search(tcp, text) THEN {"cp", "revert"}
  ELSE {}

(* C14: the replay invocations stand in the order of the lines that        *)
(* triggered them, each is a command of its line's marker, no line beyond  *)
(* the loop's position has triggered any, and no line has triggered more   *)
(* invocations or printed more diagnostic lines than one pass over it      *)
(* gives.                                                                  *)
C14_ReplayInLineOrder ==
  /\ pos \in 1..(Len(lines) + 1)
  /\ \A j, k \in 1..Len(calls) : j < k => calls[j].at <= calls[k].at
  /\ \A k \in 2..Len(calls) :
       /\ calls[k].at \in 1..Len(lines)
       /\ calls[k].at <= pos
       /\ calls[k].cmd[2] \in CommandNamesOf(lines[calls[k].at])
  /\ \A n \in 1..Len(lines) : Len(CallsAt(n)) <= CommandsOf(lines[n])
  /\ Len(Diagnostics) <= Len(IndexDiagnostics(HandledPrefix))

(* A `copy to` line has triggered its two commands and the line after it  *)
(* a rename, in that order.                                                *)
C14_Witness ==
  /\ Len(lines) = 3
  /\ pos = 4
  /\ Len(calls) = 4
  /\ calls[2].cmd[2] = "cp" /\ calls[2].at = 2
  /\ calls[3].cmd[2] = "revert" /\ calls[3].at = 2
  /\ calls[4].cmd[2] = "mv" /\ calls[4].at = 3

(* ---------------------------------------------------------------------- *)
(* C15                                                                     *)
(* ---------------------------------------------------------------------- *)
(* C15: once the loop has come to a line that needs an operand no earlier  *)
(* line has set (a `deleted file mode` line with no Index line before it,  *)
(* a `rename to` or `copy to` line with no `rename from` or `copy from`    *)
(* line before it), that line has issued no invocation, the process has    *)
(* exited non-zero with the loop standing at that line, and no later line  *)
(* has issued an invocation or printed a diagnostic line.                  *)
C15_UnsetOperandAborts ==
  \A n \in 1..Len(lines) :
    (UnsetOperandAt(n) /\ Handled(n)) =>
      /\ CallsAt(n) = <<>>
      /\ Exited
      /\ exit_code # 0
      /\ pos = n
      /\ \A m \in (n + 1)..Len(lines) : CallsAt(m) = <<>>
      /\ Diagnostics = IndexDiagnostics(SubSeq(lines, 1, n))

(* A `rename to` line with no `from` line before it has ended a run that   *)
(* had an Index line before it and a `deleted file mode` line after it.    *)
C15_Witness ==
  /\ Len(lines) = 3
  /\ search(file_name_re, lines[1])
  /\ search(tp, lines[2])
  /\ search(deleted_re, lines[3])
  /\ Handled(2)

====
